---------------------------- MODULE Spec2Model ----------------------------
(***************************************************************************)
(* State-machine model of the AI website designer front end:               *)
(*   - services/gemini.ts        bringToLife (generation client)           *)
(*   - LivePreview (part_001)    loading simulation, creation effect,      *)
(*                               version tabs, export helpers              *)
(*                               gallery miniatures                        *)
(*   - InputArea (part_000)      prompt / attachment / submit              *)
(*   - DrawingTransformation     stage timers (part_000)                   *)
(* JavaScript strings are sequences of one-character strings; markup is a  *)
(* sequence of tokens, two of which are the opening and the closing tag of *)
(* the design-prompt-data script element.  Array indices of the code are   *)
(* 0-based, sequences here 1-based: activeVersions[i] of the code is       *)
(* activeVersions[i + 1] here.                                             *)
(***************************************************************************)
EXTENDS Integers, Sequences, FiniteSets, TLC

VARIABLES
    \* LivePreview
    creation,               \* prop: Creation | null
    isLoading,              \* prop
    loadingStep,            \* useState(0)
    interval,               \* TRUE while the setInterval of the loading effect is registered
    ticks,                  \* history: interval callbacks run since the interval was registered
    activeVersions,         \* useState<any[]>([])
    selectedVersionIndex,   \* useState<number | null>(null)
    lastDownload,           \* the last file handed to the browser (a.download, blob)
    lastEvent,              \* history: the last operation and the selection it started from
    \* InputArea
    prompt,                 \* useState("")
    attachedFile,           \* useState<File | null>(null)
    isDragging,             \* useState(false)
    isGenerating,           \* prop
    disabled,               \* prop (default false)
    generateCalls,          \* history: number of onGenerate calls
    lastGenerate,           \* history: the arguments of the last onGenerate call
    \* bringToLife
    btlPc,                  \* position in bringToLife: "idle", "awaiting", "returned", "thrown"
    parts,                  \* the parts array sent to generateContent
    apiCalls,               \* history: number of ai.models.generateContent calls
    btlResult,              \* the value bringToLife resolved to / the error it rejected with
    settled,                \* history: how the generateContent promise settled
    \* gallery miniatures
    frames,                 \* the iframes whose load event has fired: (idx, pIdx) -> frame
    \* DrawingTransformation
    delay,                  \* prop
    mounted,                \* FALSE once the component is unmounted
    stage,                  \* useState(0): the value of the last setStage call
    startTimeout,           \* TRUE while the initial setTimeout is pending
    cycleInterval,          \* TRUE while setInterval(cycle, 9000) is registered
    stageTimeouts,          \* the pending setTimeout(() => setStage(n)) of a cycle: set of n
    cycles                  \* history: number of cycle() calls

previewVars == <<creation, isLoading, loadingStep, interval, ticks, activeVersions,
                 selectedVersionIndex, lastDownload, lastEvent>>
inputVars == <<prompt, attachedFile, isDragging, isGenerating, disabled, generateCalls,
               lastGenerate>>
geminiVars == <<btlPc, parts, apiCalls, btlResult, settled>>
galleryVars == <<frames>>
drawingVars == <<delay, mounted, stage, startTimeout, cycleInterval, stageTimeouts, cycles>>
vars == <<previewVars, inputVars, geminiVars, galleryVars, drawingVars>>
notPreview == <<inputVars, geminiVars, galleryVars, drawingVars>>
notInput == <<previewVars, geminiVars, galleryVars, drawingVars>>
notGemini == <<previewVars, inputVars, galleryVars, drawingVars>>
notGallery == <<previewVars, inputVars, geminiVars, drawingVars>>
notDrawing == <<previewVars, inputVars, geminiVars, galleryVars>>

-----------------------------------------------------------------------------
(* Bounds *)

MaxVersions == 2        \* longest versions array of a creation
MaxTicks == 5           \* interval callbacks followed per generation
MaxNameLen == 2         \* longest creation / theme name of the file-name check
MaxMarkupLen == 5       \* longest markup (in tokens) of the prompt-export check
MaxDesigns == 4         \* longest designs array of a model response
MaxCalls == 2           \* onGenerate calls followed
MaxCycles == 5          \* cycle() calls followed per DrawingTransformation

-----------------------------------------------------------------------------
(* Strings *)

LowerLetters == <<"a","b","c","d","e","f","g","h","i","j","k","l","m",
                  "n","o","p","q","r","s","t","u","v","w","x","y","z">>
UpperLetters == <<"A","B","C","D","E","F","G","H","I","J","K","L","M",
                  "N","O","P","Q","R","S","T","U","V","W","X","Y","Z">>
Digits == <<"0","1","2","3","4","5","6","7","8","9">>

Range(s) == {s[i] : i \in 1..Len(s)}

\* the character class [a-z0-9] under the i flag
IsAlnum(c) == c \in Range(LowerLetters) \cup Range(UpperLetters) \cup Range(Digits)

\* String.prototype.toLowerCase on one character
ToLowerChar(c) ==
    IF c \in Range(UpperLetters)
    THEN LowerLetters[CHOOSE i \in 1..26 : UpperLetters[i] = c]
    ELSE c

ToLowerCase(s) == [i \in 1..Len(s) |-> ToLowerChar(s[i])]

\* s.replace(/[^a-z0-9]/gi, '_')
ReplaceNonAlnum(s) == [i \in 1..Len(s) |-> IF IsAlnum(s[i]) THEN s[i] ELSE "_"]

\* all sequences over S of length at most n
SeqsUpTo(S, n) == UNION {[1..k -> S] : k \in 0..n}


-----------------------------------------------------------------------------
(* LivePreview: data *)

\* useState<number | null>(null): the value standing for null ("Show All")
NoSelection == -1

\* the creation prop when it is null
NoCreation ==
    [isNull |-> TRUE, name |-> <<>>, hasVersions |-> FALSE, versions |-> <<>>,
     hasHtml |-> FALSE, html |-> <<>>]

\* <script id="design-prompt-data" type="text/plain"> and </script>, as tokens
OpenTag == "<script id=\"design-prompt-data\" type=\"text/plain\">"
CloseTag == "</script>"

\* the tokens markup is made of: the two tags, a visible character, white space
MarkupTokens == {OpenTag, CloseTag, "x", " "}

\* DesignVersion values the preview is fed with
ThemeA ==
    [themeName |-> <<"D", "k">>, description |-> "dark",
     html |-> <<OpenTag, " ", "x", CloseTag>>]
ThemeB ==
    [themeName |-> <<"L", " ">>, description |-> "light", html |-> <<"x">>]
PreviewThemes == {ThemeA, ThemeB}

\* the theme the legacy branch builds around creation.html
LegacyTheme(html) ==
    [themeName |-> <<"S","t","a","n","d","a","r","d"," ","T","h","e","m","e">>,
     description |-> "Original Design",
     html |-> html]

\* values of creation.html: "" and one non-empty document
LegacyHtmls == {<<>>, <<"x", " ">>}

\* the non-null values of the creation prop; an absent field is flagged
Creations ==
    {[isNull |-> FALSE, name |-> <<"M", "y", " ">>,
      hasVersions |-> hv, versions |-> IF hv THEN v ELSE <<>>,
      hasHtml |-> hh, html |-> IF hh THEN h ELSE <<>>] :
        hv \in BOOLEAN, v \in SeqsUpTo(PreviewThemes, MaxVersions),
        hh \in BOOLEAN, h \in LegacyHtmls}

\* PREVIEW_PAGES
PREVIEW_PAGES ==
    << [id |-> "#page-home", label |-> "Home"],
       [id |-> "#page-features", label |-> "Features"],
       [id |-> "#page-contact", label |-> "Contact"] >>

NoDownload == [filename |-> <<>>, content |-> <<>>, type |-> "none"]

Event(op, from) == [op |-> op, from |-> from]

-----------------------------------------------------------------------------
(* LivePreview: loading simulation effect *)

\* the updater of the interval callback
StepAfterTickOff(prev) == IF prev < 5 THEN prev + 1 ELSE prev
StepAfterTick(prev) == IF prev < 4 THEN prev + 1 ELSE prev

\* the effect's cleanup, clearInterval(interval)
CleanupLeak(iv) == iv
CleanupInterval(iv) == FALSE

\* isLoading becomes true: cleanup of the previous run (none registered), then the
\* effect body of the true branch
StartLoading ==
    /\ ~isLoading
    /\ isLoading' = TRUE
    /\ loadingStep' = 0
    /\ interval' = TRUE
    /\ ticks' = 0
    /\ lastEvent' = Event("start", NoSelection)
    /\ UNCHANGED <<creation, activeVersions, selectedVersionIndex, lastDownload>>
    /\ UNCHANGED notPreview

\* isLoading becomes false: cleanup of the true run, then the else branch
StopLoading ==
    /\ isLoading
    /\ isLoading' = FALSE
    /\ interval' = CleanupInterval(interval)
    /\ loadingStep' = 0
    /\ lastEvent' = Event("stop", NoSelection)
    /\ UNCHANGED <<creation, ticks, activeVersions, selectedVersionIndex, lastDownload>>
    /\ UNCHANGED notPreview

\* one run of the setInterval callback
Tick ==
    /\ interval
    /\ ticks < MaxTicks
    /\ loadingStep' = StepAfterTick(loadingStep)
    /\ ticks' = ticks + 1
    /\ lastEvent' = Event("tick", NoSelection)
    /\ UNCHANGED <<creation, isLoading, interval, activeVersions, selectedVersionIndex,
                   lastDownload>>
    /\ UNCHANGED notPreview

-----------------------------------------------------------------------------
(* LivePreview: creation effect *)

\* creation.versions && creation.versions.length > 0
HasVersions(c) == c.hasVersions /\ Len(c.versions) > 0
\* creation.html (truthy)
HasHtml(c) == c.hasHtml /\ c.html # <<>>

\* activeVersions after the effect ran for creation c
VersionsAfterEffect(c, av) ==
    IF c.isNull THEN <<>>
    ELSE IF HasVersions(c) THEN c.versions
    ELSE IF HasHtml(c) THEN <<LegacyTheme(c.html)>>
    ELSE av

\* selectedVersionIndex after the effect ran for creation c
SelectionAfterEffectStale(c, sel) ==
    IF c.isNull THEN sel
    ELSE IF HasVersions(c) THEN sel
    ELSE IF HasHtml(c) THEN 0
    ELSE sel
SelectionAfterEffectAll(c, sel) ==
    IF c.isNull THEN sel
    ELSE IF HasVersions(c) THEN NoSelection
    ELSE IF HasHtml(c) THEN NoSelection
    ELSE sel
SelectionAfterEffect(c, sel) ==
    IF c.isNull THEN sel
    ELSE IF HasVersions(c) THEN NoSelection
    ELSE IF HasHtml(c) THEN 0
    ELSE sel

\* the creation prop changes to c and the effect runs
CreationEffect(c, op) ==
    /\ creation' = c
    /\ activeVersions' = VersionsAfterEffect(c, activeVersions)
    /\ selectedVersionIndex' = SelectionAfterEffect(c, selectedVersionIndex)
    /\ lastEvent' = Event(op, selectedVersionIndex)
    /\ UNCHANGED <<isLoading, loadingStep, interval, ticks, lastDownload>>
    /\ UNCHANGED notPreview

\* the parent passes another (non-null) creation object
NewCreation(c) == CreationEffect(c, "creation")

\* the parent resets: the creation prop becomes null
ResetCreation ==
    /\ ~creation.isNull
    /\ CreationEffect(NoCreation, "reset")

-----------------------------------------------------------------------------
(* LivePreview: version tabs and gallery *)

\* !isLoading && activeVersions.length > 1
TabsShown == ~isLoading /\ Len(activeVersions) > 1
\* !isLoading && selectedVersionIndex === null
GalleryShown == ~isLoading /\ selectedVersionIndex = NoSelection
\* selectedVersionIndex !== null && activeVersions[selectedVersionIndex]
HeaderActionsShown ==
    /\ selectedVersionIndex # NoSelection
    /\ selectedVersionIndex + 1 \in 1..Len(activeVersions)

\* the tab strip: the selection each tab sets, the Compare tab first, then one
\* tab per element of activeVersions
TabStrip == <<NoSelection>> \o [i \in 1..Len(activeVersions) |-> i - 1]

\* the active style of a tab: selectedVersionIndex === null for the Compare tab,
\* selectedVersionIndex === idx for the tab of theme idx
TabActiveThemesOnly(t) == t # NoSelection /\ selectedVersionIndex = t
TabActive(t) == selectedVersionIndex = t

SelectFirst(sel, op) ==
    /\ selectedVersionIndex' = IF sel = NoSelection THEN NoSelection ELSE 0
    /\ lastEvent' = Event(op, NoSelection)
    /\ UNCHANGED <<creation, isLoading, loadingStep, interval, ticks, activeVersions,
                   lastDownload>>
    /\ UNCHANGED notPreview
Select(sel, op) ==
    /\ selectedVersionIndex' = sel
    /\ lastEvent' = Event(op, NoSelection)
    /\ UNCHANGED <<creation, isLoading, loadingStep, interval, ticks, activeVersions,
                   lastDownload>>
    /\ UNCHANGED notPreview

\* the "Compare Themes" tab
ClickCompare == TabsShown /\ Select(NoSelection, "compare")

\* the tab of theme idx
ClickTab(idx) ==
    /\ TabsShown
    /\ idx + 1 \in 1..Len(activeVersions)
    /\ Select(idx, "tab")

\* the "Preview Flow" button of theme idx
ClickPreviewFlow(idx) ==
    /\ GalleryShown
    /\ idx + 1 \in 1..Len(activeVersions)
    /\ Select(idx, "flow")

\* the miniature of page pIdx of theme idx
ClickThumbnail(idx, pIdx) ==
    /\ GalleryShown
    /\ idx + 1 \in 1..Len(activeVersions)
    /\ pIdx + 1 \in 1..Len(PREVIEW_PAGES)
    /\ Select(idx, "thumbnail")


-----------------------------------------------------------------------------
(* LivePreview: export helpers *)

Min(S) == CHOOSE x \in S : \A y \in S : x <= y
Max(S) == CHOOSE x \in S : \A y \in S : x >= y

\* `${creation.name.replace(/[^a-z0-9]/gi, '_').toLowerCase()}_${suffix}`
HtmlBaseName(name, suffix) == ToLowerCase(ReplaceNonAlnum(name)) \o <<"_">> \o suffix
\* a.download of handleDownloadHtml
HtmlFileName(name, suffix) == HtmlBaseName(name, suffix) \o <<".", "h", "t", "m", "l">>

\* a.download of handleDownloadPrompt
PromptFileName(themeName) ==
    <<"P", "R", "O", "M", "P", "T", "_">> \o ReplaceNonAlnum(themeName)
        \o <<".", "t", "x", "t">>

\* html.match(/<script id="design-prompt-data" type="text\/plain">([\s\S]*?)<\/script>/):
\* the leftmost opening tag that a closing tag follows, and the text up to the first
\* such closing tag (the group is lazy)
PromptMatch(html) ==
    LET starts == {i \in 1..Len(html) :
                     /\ html[i] = OpenTag
                     /\ \E j \in (i + 1)..Len(html) : html[j] = CloseTag}
    IN  IF starts = {} THEN [found |-> FALSE, group |-> <<>>]
        ELSE LET i == Min(starts)
                 j == Min({k \in (i + 1)..Len(html) : html[k] = CloseTag})
             IN  [found |-> TRUE, group |-> SubSeq(html, i + 1, j - 1)]

\* String.prototype.trim
Trim(s) ==
    LET solid == {i \in 1..Len(s) : s[i] # " "}
    IN  IF solid = {} THEN <<>> ELSE SubSeq(s, Min(solid), Max(solid))

PromptNotFound == <<"Design prompt not found in the generated file.">>

\* promptText of handleDownloadPrompt: match && match[1] ? match[1].trim() : placeholder
PromptText(html) ==
    LET match == PromptMatch(html)
    IN  IF match.found /\ match.group # <<>> THEN Trim(match.group) ELSE PromptNotFound

handleDownloadHtml(html, suffix) ==
    /\ lastDownload' =
         IF creation.isNull THEN lastDownload
         ELSE [filename |-> HtmlFileName(creation.name, suffix), content |-> html,
               type |-> "text/html"]
    /\ lastEvent' = Event("downloadHtml", NoSelection)
    /\ UNCHANGED <<creation, isLoading, loadingStep, interval, ticks, activeVersions,
                   selectedVersionIndex>>
    /\ UNCHANGED notPreview

handleDownloadPromptAndLeave(html, themeName) ==
    /\ lastDownload' =
         [filename |-> PromptFileName(themeName), content |-> PromptText(html),
          type |-> "text/plain"]
    /\ lastEvent' = Event("downloadPrompt", NoSelection)
    /\ selectedVersionIndex' = NoSelection
    /\ UNCHANGED <<creation, isLoading, loadingStep, interval, ticks, activeVersions>>
    /\ UNCHANGED notPreview
handleDownloadPrompt(html, themeName) ==
    /\ lastDownload' =
         [filename |-> PromptFileName(themeName), content |-> PromptText(html),
          type |-> "text/plain"]
    /\ lastEvent' = Event("downloadPrompt", NoSelection)
    /\ UNCHANGED <<creation, isLoading, loadingStep, interval, ticks, activeVersions,
                   selectedVersionIndex>>
    /\ UNCHANGED notPreview

\* the focused theme, activeVersions[selectedVersionIndex]
SelectedVersionFirst == activeVersions[1]
SelectedVersion == activeVersions[selectedVersionIndex + 1]

\* !isLoading && selectedVersionIndex !== null && activeVersions[selectedVersionIndex]
FocusedViewShown == ~isLoading /\ HeaderActionsShown
\* srcDoc of the "Full Preview" iframe
FocusedSrcDoc == SelectedVersion.html

\* header button "Download HTML"
HeaderDownloadHtml ==
    /\ HeaderActionsShown
    /\ handleDownloadHtml(SelectedVersion.html, SelectedVersion.themeName)

\* header button "Copy Prompt"
HeaderDownloadPrompt ==
    /\ HeaderActionsShown
    /\ handleDownloadPrompt(SelectedVersion.html, SelectedVersion.themeName)

\* gallery button "Save Prompt" of theme idx
GallerySavePrompt(idx) ==
    /\ GalleryShown
    /\ idx + 1 \in 1..Len(activeVersions)
    /\ handleDownloadPrompt(activeVersions[idx + 1].html, activeVersions[idx + 1].themeName)

-----------------------------------------------------------------------------
(* InputArea *)

\* the texts of the four suggestion chips
ChipTexts ==
    << <<"Professional SaaS dashboard with sidebar navigation, analytics charts, and data tables.">>,
       <<"Modern fashion store with hero video, featured collections, and product grid.">>,
       <<"Bold digital agency site with large typography, project case studies, and dark mode.">>,
       <<"Clean real estate platform with property search map, listing cards, and agent profiles.">> >>

\* what the user types: nothing, white space only, text
TypedTexts == {<<>>, <<" ">>, <<"p">>, <<" ", "p">>}

\* the files of a file dialog or a drop; "null" stands for no file
Files == {"sketch.png", "brief.pdf"}

NoGenerate == [prompt |-> <<>>, file |-> "null", pending |-> FALSE]

NothingToSendUntrimmed == prompt = <<>> /\ attachedFile = "null"
\* !prompt.trim() && !attachedFile
NothingToSend == Trim(prompt) = <<>> /\ attachedFile = "null"

\* the parent's onGenerate: a generation starts and isGenerating becomes true
onGenerate(p, f) ==
    /\ generateCalls' = generateCalls + 1
    /\ lastGenerate' = [prompt |-> p, file |-> f, pending |-> isGenerating]
    /\ isGenerating' = TRUE

handleSubmit ==
    IF NothingToSend
    THEN UNCHANGED <<prompt, attachedFile, isGenerating, generateCalls, lastGenerate>>
    ELSE /\ generateCalls < MaxCalls
         /\ onGenerate(prompt, attachedFile)
         /\ prompt' = <<>>
         /\ attachedFile' = "null"

\* disabled={isGenerating} of the textarea
TextareaDisabled == isGenerating

\* disabled={(!prompt.trim() && !attachedFile) || isGenerating} of the submit button
SubmitDisabledIdle == NothingToSend
SubmitDisabled == NothingToSend \/ isGenerating

\* onChange of the textarea
ChangePrompt(v) ==
    /\ ~TextareaDisabled
    /\ prompt' = v
    /\ UNCHANGED <<attachedFile, isDragging, isGenerating, disabled, generateCalls,
                   lastGenerate>>
    /\ UNCHANGED notInput

\* Enter without Shift in the textarea
PressEnter ==
    /\ ~TextareaDisabled
    /\ handleSubmit
    /\ UNCHANGED <<isDragging, disabled>>
    /\ UNCHANGED notInput

\* click on "Generate Website"
ClickSubmit ==
    /\ ~SubmitDisabled
    /\ handleSubmit
    /\ UNCHANGED <<isDragging, disabled>>
    /\ UNCHANGED notInput

\* the file input reports a chosen file
handleFileChange(f) ==
    /\ attachedFile' = f
    /\ UNCHANGED <<prompt, isDragging, isGenerating, disabled, generateCalls, lastGenerate>>
    /\ UNCHANGED notInput

\* a drop on the input card; f = "null" is a drop that carries no file
handleDrop(f) ==
    /\ isDragging' = FALSE
    /\ attachedFile' = IF disabled \/ isGenerating \/ f = "null" THEN attachedFile ELSE f
    /\ UNCHANGED <<prompt, isGenerating, disabled, generateCalls, lastGenerate>>
    /\ UNCHANGED notInput

DragOver ==
    /\ isDragging' = TRUE
    /\ UNCHANGED <<prompt, attachedFile, isGenerating, disabled, generateCalls, lastGenerate>>
    /\ UNCHANGED notInput

DragLeave ==
    /\ isDragging' = FALSE
    /\ UNCHANGED <<prompt, attachedFile, isGenerating, disabled, generateCalls, lastGenerate>>
    /\ UNCHANGED notInput

\* the x button of the attached-file preview
RemoveAttachment ==
    /\ attachedFile # "null"
    /\ attachedFile' = "null"
    /\ UNCHANGED <<prompt, isDragging, isGenerating, disabled, generateCalls, lastGenerate>>
    /\ UNCHANGED notInput

\* suggestion chip k, rendered when !isGenerating && !prompt && !attachedFile
ClickChip(k) ==
    /\ ~isGenerating /\ prompt = <<>> /\ attachedFile = "null"
    /\ prompt' = ChipTexts[k]
    /\ UNCHANGED <<attachedFile, isDragging, isGenerating, disabled, generateCalls,
                   lastGenerate>>
    /\ UNCHANGED notInput

\* the parent: the pending generation completes (success or failure)
GenerationComplete ==
    /\ isGenerating
    /\ isGenerating' = FALSE
    /\ UNCHANGED <<prompt, attachedFile, isDragging, disabled, generateCalls, lastGenerate>>
    /\ UNCHANGED notInput

-----------------------------------------------------------------------------
(* bringToLife *)

\* entries of a designs array; has = the fields the entry carries
EntryA ==
    [has |-> {"themeName", "description", "html"},
     themeName |-> <<"D", "k">>, description |-> "dark", html |-> <<"x">>]
EntryB ==
    [has |-> {"themeName", "description", "html"},
     themeName |-> <<"L", " ">>, description |-> "light", html |-> <<"x", " ">>]
EntryNoHtml ==
    [has |-> {"themeName", "description"},
     themeName |-> <<"D", "k">>, description |-> "dark", html |-> <<>>]
Entries == {EntryA, EntryB, EntryNoHtml}

\* what generateContent can do: reject with an error, or resolve with a response
\* whose text is undefined, "", not JSON, or the JSON document `json`;
\* designs is the value of the document's designs member
Respond(outcome, error, text, json, designs, items) ==
    [outcome |-> outcome, error |-> error, text |-> text, json |-> json,
     designs |-> designs, items |-> items]
Responses ==
    {Respond("reject", e, "none", "none", "none", <<>>) : e \in {"TransportError", "AuthError"}}
    \cup {Respond("resolve", "none", t, "none", "none", <<>>) :
            t \in {"undefined", "empty", "malformed"}}
    \cup {Respond("resolve", "none", "json", j, "none", <<>>) : j \in {"null", "number"}}
    \cup {Respond("resolve", "none", "json", "object", d, <<>>) :
            d \in {"absent", "null", "string", "object"}}
    \cup {Respond("resolve", "none", "json", "object", "array", items) :
            items \in SeqsUpTo(Entries, MaxDesigns)}

NoResult == [kind |-> "none", value |-> <<>>, error |-> "none"]
Returned(v) == [kind |-> "value", value |-> v, error |-> "none"]
Thrown(e) == [kind |-> "error", value |-> <<>>, error |-> e]

\* the generateContent promise before it settles
NotSettled == Respond("pending", "none", "none", "none", "none", <<>>)

BringToLifeOutcomeFallback(r) ==
    IF r.outcome = "reject" \/ r.text = "malformed" THEN Returned(<<>>)
    ELSE IF r.text \in {"undefined", "empty"} THEN Thrown("Invalid response structure")
    ELSE IF r.json = "null" THEN Thrown("TypeError")
    ELSE IF r.json # "object" \/ r.designs # "array" THEN Thrown("Invalid response structure")
    ELSE Returned(r.items)
\* the try block after the await, and the catch that rethrows
BringToLifeOutcome(r) ==
    IF r.outcome = "reject" THEN Thrown(r.error)
    \* response.text || "{}"
    ELSE IF r.text \in {"undefined", "empty"} THEN Thrown("Invalid response structure")
    \* JSON.parse
    ELSE IF r.text = "malformed" THEN Thrown("SyntaxError")
    \* data.designs of null
    ELSE IF r.json = "null" THEN Thrown("TypeError")
    \* !data.designs || !Array.isArray(data.designs)
    ELSE IF r.json # "object" \/ r.designs # "array" THEN Thrown("Invalid response structure")
    ELSE Returned(r.items)

\* bringToLife up to the await: parts is built and generateContent is called
BringToLifeCall(hasFile, hasMime) ==
    /\ btlPc = "idle"
    /\ parts' = IF hasFile /\ hasMime THEN <<"text", "inlineData">> ELSE <<"text">>
    /\ apiCalls' = apiCalls + 1
    /\ btlPc' = "awaiting"
    /\ UNCHANGED <<btlResult, settled>>
    /\ UNCHANGED notGemini

\* generateContent settles with r and bringToLife runs to its end
BringToLifeSettle(r) ==
    /\ btlPc = "awaiting"
    /\ btlResult' = BringToLifeOutcome(r)
    /\ btlPc' = IF BringToLifeOutcome(r).kind = "value" THEN "returned" ELSE "thrown"
    /\ settled' = r
    /\ UNCHANGED <<parts, apiCalls>>
    /\ UNCHANGED notGemini

-----------------------------------------------------------------------------
(* LivePreview: the miniatures of the gallery *)

\* no load event has fired
NoFrames == [f \in {} |-> {}]

\* activeVersions.map((version, idx) => PREVIEW_PAGES.map((page, pIdx) => <iframe>))
GalleryPairs ==
    IF GalleryShown
    THEN (0..(Len(activeVersions) - 1)) \X (0..(Len(PREVIEW_PAGES) - 1))
    ELSE {}

\* sandbox="allow-scripts" of a miniature
MiniatureSandbox == {"allow-scripts"}

\* the iframe of page pIdx of theme idx as rendered: srcDoc, title
Miniature(idx, pIdx) ==
    [srcDoc |-> activeVersions[idx + 1].html,
     title |-> <<activeVersions[idx + 1].themeName, PREVIEW_PAGES[pIdx + 1].label>>,
     sandbox |-> MiniatureSandbox]

\* an iframe sandboxed without allow-same-origin holds a document of an opaque
\* origin: its Location is cross-origin to the host, and of a cross-origin
\* Location only href (set) and replace are accessible
HashSettable(sandbox) == "allow-same-origin" \in sandbox

\* iframe.contentWindow.location.hash = page.id in the onLoad handler: the
\* fragment of the document afterwards and the exception the assignment raised
AssignHash(sandbox, id) ==
    IF HashSettable(sandbox)
    THEN [hash |-> id, threw |-> "none"]
    ELSE [hash |-> "", threw |-> "SecurityError"]

\* the load event of the miniature of page pIdx of theme idx
FrameLoad(idx, pIdx) ==
    /\ <<idx, pIdx>> \in GalleryPairs
    /\ <<idx, pIdx>> \notin DOMAIN frames
    /\ frames' =
         [f \in DOMAIN frames \cup {<<idx, pIdx>>} |->
            IF f \in DOMAIN frames THEN frames[f]
            ELSE [frame |-> Miniature(idx, pIdx),
                  assigned |-> PREVIEW_PAGES[pIdx + 1].id,
                  result |-> AssignHash(MiniatureSandbox, PREVIEW_PAGES[pIdx + 1].id)]]
    /\ UNCHANGED notGallery

-----------------------------------------------------------------------------
(* DrawingTransformation *)

\* the delay props the Hero passes
Delays == {0, 2000, 3000, 5000}

\* cycle(): setStage(0) and the two setTimeout calls (500 ms, 3500 ms)
cycle ==
    /\ cycles < MaxCycles
    /\ cycles' = cycles + 1
    /\ stage' = 0
    /\ stageTimeouts' = stageTimeouts \cup {1, 2}

\* the callback of startTimeout: cycle() and setInterval(cycle, 9000); the
\* function it returns is discarded by setTimeout
StartTimeoutFires ==
    /\ startTimeout
    /\ startTimeout' = FALSE
    /\ cycle
    /\ cycleInterval' = TRUE
    /\ UNCHANGED <<delay, mounted>>
    /\ UNCHANGED notDrawing

\* the interval callback; 9000 ms after a cycle its two timeouts have run
IntervalFires ==
    /\ cycleInterval
    /\ stageTimeouts = {}
    /\ cycle
    /\ UNCHANGED <<delay, mounted, startTimeout, cycleInterval>>
    /\ UNCHANGED notDrawing

\* () => setStage(n) of a cycle; the 500 ms timeout runs before the 3500 ms one
StageTimeoutFires(n) ==
    /\ n \in stageTimeouts
    /\ \A m \in stageTimeouts : n <= m
    /\ stage' = n
    /\ stageTimeouts' = stageTimeouts \ {n}
    /\ UNCHANGED <<delay, mounted, startTimeout, cycleInterval, cycles>>
    /\ UNCHANGED notDrawing

\* the cleanup of the effect: clearTimeout(startTimeout), nothing else
Unmount ==
    /\ mounted
    /\ mounted' = FALSE
    /\ startTimeout' = FALSE
    /\ UNCHANGED <<delay, stage, cycleInterval, stageTimeouts, cycles>>
    /\ UNCHANGED notDrawing

-----------------------------------------------------------------------------
(* The preview component under every order of its events *)

\* the state after the first render: no creation, not loading, nothing typed,
\* bringToLife not called
Init ==
    /\ creation = NoCreation
    /\ isLoading = FALSE
    /\ loadingStep = 0
    /\ interval = FALSE
    /\ ticks = 0
    /\ activeVersions = <<>>
    /\ selectedVersionIndex = NoSelection
    /\ lastDownload = NoDownload
    /\ lastEvent = Event("init", NoSelection)
    /\ prompt = <<>>
    /\ attachedFile = "null"
    /\ isDragging = FALSE
    /\ isGenerating = FALSE
    /\ disabled = FALSE
    /\ generateCalls = 0
    /\ lastGenerate = NoGenerate
    /\ btlPc = "idle"
    /\ parts = <<>>
    /\ apiCalls = 0
    /\ btlResult = NoResult
    /\ settled = NotSettled
    /\ frames = NoFrames
    /\ delay = 0
    /\ mounted = FALSE
    /\ stage = 0
    /\ startTimeout = FALSE
    /\ cycleInterval = FALSE
    /\ stageTimeouts = {}
    /\ cycles = 0

NextPreview ==
    \/ \E c \in Creations : NewCreation(c)
    \/ ResetCreation
    \/ StartLoading
    \/ StopLoading
    \/ Tick
    \/ ClickCompare
    \/ \E idx \in 0..(MaxVersions - 1) : ClickTab(idx)
    \/ \E idx \in 0..(MaxVersions - 1) : ClickPreviewFlow(idx)
    \/ \E idx \in 0..(MaxVersions - 1), pIdx \in 0..2 : ClickThumbnail(idx, pIdx)
    \/ HeaderDownloadHtml
    \/ HeaderDownloadPrompt
    \/ \E idx \in 0..(MaxVersions - 1) : GallerySavePrompt(idx)

SpecPreview == Init /\ [][NextPreview]_vars

-----------------------------------------------------------------------------
(* The input area under every order of its events *)

\* as Init, with either value of the disabled prop
InitInputArea ==
    /\ creation = NoCreation
    /\ isLoading = FALSE
    /\ loadingStep = 0
    /\ interval = FALSE
    /\ ticks = 0
    /\ activeVersions = <<>>
    /\ selectedVersionIndex = NoSelection
    /\ lastDownload = NoDownload
    /\ lastEvent = Event("init", NoSelection)
    /\ prompt = <<>>
    /\ attachedFile = "null"
    /\ isDragging = FALSE
    /\ isGenerating = FALSE
    /\ disabled \in BOOLEAN
    /\ generateCalls = 0
    /\ lastGenerate = NoGenerate
    /\ btlPc = "idle"
    /\ parts = <<>>
    /\ apiCalls = 0
    /\ btlResult = NoResult
    /\ settled = NotSettled
    /\ frames = NoFrames
    /\ delay = 0
    /\ mounted = FALSE
    /\ stage = 0
    /\ startTimeout = FALSE
    /\ cycleInterval = FALSE
    /\ stageTimeouts = {}
    /\ cycles = 0

NextInput ==
    \/ \E v \in TypedTexts : ChangePrompt(v)
    \/ PressEnter
    \/ ClickSubmit
    \/ \E f \in Files : handleFileChange(f)
    \/ \E f \in Files \cup {"null"} : handleDrop(f)
    \/ DragOver
    \/ DragLeave
    \/ RemoveAttachment
    \/ \E k \in 1..Len(ChipTexts) : ClickChip(k)
    \/ GenerationComplete

SpecInput == InitInputArea /\ [][NextInput]_vars

-----------------------------------------------------------------------------
(* One call of bringToLife against every response *)

NextGemini ==
    \/ \E hasFile \in BOOLEAN, hasMime \in BOOLEAN : BringToLifeCall(hasFile, hasMime)
    \/ \E r \in Responses : BringToLifeSettle(r)

SpecGemini == Init /\ [][NextGemini]_vars

-----------------------------------------------------------------------------
(* The export helpers as functions of their inputs: the preview focused on the  *)
(* only theme of a creation, for every creation name and theme name (the file   *)
(* names) and for every markup (the exported prompt)                             *)

\* the characters names are made of: a lower-case and an upper-case letter, a
\* digit, a blank, a punctuation mark
NameChars == {"a", "Z", "7", " ", "!"}

ExportTheme(themeName, html) ==
    [themeName |-> themeName, description |-> "dark", html |-> html]

ExportCreation(name, themeName, html) ==
    [isNull |-> FALSE, name |-> name, hasVersions |-> TRUE,
     versions |-> <<ExportTheme(themeName, html)>>, hasHtml |-> FALSE, html |-> <<>>]

InitExportName ==
    /\ \E name \in SeqsUpTo(NameChars, MaxNameLen),
          themeName \in SeqsUpTo(NameChars, MaxNameLen) :
            /\ creation = ExportCreation(name, themeName, <<"x">>)
            /\ activeVersions = <<ExportTheme(themeName, <<"x">>)>>
    /\ isLoading = FALSE
    /\ loadingStep = 0
    /\ interval = FALSE
    /\ ticks = 0
    /\ selectedVersionIndex = 0
    /\ lastDownload = NoDownload
    /\ lastEvent = Event("flow", NoSelection)
    /\ prompt = <<>>
    /\ attachedFile = "null"
    /\ isDragging = FALSE
    /\ isGenerating = FALSE
    /\ disabled = FALSE
    /\ generateCalls = 0
    /\ lastGenerate = NoGenerate
    /\ btlPc = "idle"
    /\ parts = <<>>
    /\ apiCalls = 0
    /\ btlResult = NoResult
    /\ settled = NotSettled
    /\ frames = NoFrames
    /\ delay = 0
    /\ mounted = FALSE
    /\ stage = 0
    /\ startTimeout = FALSE
    /\ cycleInterval = FALSE
    /\ stageTimeouts = {}
    /\ cycles = 0

InitExportPrompt ==
    /\ \E html \in SeqsUpTo(MarkupTokens, MaxMarkupLen) :
            /\ creation = ExportCreation(<<"M", "y", " ">>, <<"D", "k">>, html)
            /\ activeVersions = <<ExportTheme(<<"D", "k">>, html)>>
    /\ isLoading = FALSE
    /\ loadingStep = 0
    /\ interval = FALSE
    /\ ticks = 0
    /\ selectedVersionIndex = 0
    /\ lastDownload = NoDownload
    /\ lastEvent = Event("flow", NoSelection)
    /\ prompt = <<>>
    /\ attachedFile = "null"
    /\ isDragging = FALSE
    /\ isGenerating = FALSE
    /\ disabled = FALSE
    /\ generateCalls = 0
    /\ lastGenerate = NoGenerate
    /\ btlPc = "idle"
    /\ parts = <<>>
    /\ apiCalls = 0
    /\ btlResult = NoResult
    /\ settled = NotSettled
    /\ frames = NoFrames
    /\ delay = 0
    /\ mounted = FALSE
    /\ stage = 0
    /\ startTimeout = FALSE
    /\ cycleInterval = FALSE
    /\ stageTimeouts = {}
    /\ cycles = 0

NextExport ==
    \/ HeaderDownloadHtml
    \/ HeaderDownloadPrompt

SpecExportName == InitExportName /\ [][NextExport]_vars
SpecExportPrompt == InitExportPrompt /\ [][NextExport]_vars

-----------------------------------------------------------------------------
(* The gallery of a creation with versions, its miniatures loading in every    *)
(* order                                                                       *)

InitGallery ==
    /\ \E v \in SeqsUpTo(PreviewThemes, MaxVersions) \ {<<>>} :
            /\ creation = [isNull |-> FALSE, name |-> <<"M", "y", " ">>,
                           hasVersions |-> TRUE, versions |-> v,
                           hasHtml |-> FALSE, html |-> <<>>]
            /\ activeVersions = v
    /\ isLoading = FALSE
    /\ loadingStep = 0
    /\ interval = FALSE
    /\ ticks = 0
    /\ selectedVersionIndex = NoSelection
    /\ lastDownload = NoDownload
    /\ lastEvent = Event("creation", NoSelection)
    /\ prompt = <<>>
    /\ attachedFile = "null"
    /\ isDragging = FALSE
    /\ isGenerating = FALSE
    /\ disabled = FALSE
    /\ generateCalls = 0
    /\ lastGenerate = NoGenerate
    /\ btlPc = "idle"
    /\ parts = <<>>
    /\ apiCalls = 0
    /\ btlResult = NoResult
    /\ settled = NotSettled
    /\ frames = NoFrames
    /\ delay = 0
    /\ mounted = FALSE
    /\ stage = 0
    /\ startTimeout = FALSE
    /\ cycleInterval = FALSE
    /\ stageTimeouts = {}
    /\ cycles = 0

NextGallery ==
    \E idx \in 0..(MaxVersions - 1), pIdx \in 0..2 : FrameLoad(idx, pIdx)

SpecGallery == InitGallery /\ [][NextGallery]_vars

-----------------------------------------------------------------------------
(* One DrawingTransformation from its mount, for each delay the Hero passes    *)

\* after the first run of the effect: stage 0, startTimeout pending
InitDrawing ==
    /\ creation = NoCreation
    /\ isLoading = FALSE
    /\ loadingStep = 0
    /\ interval = FALSE
    /\ ticks = 0
    /\ activeVersions = <<>>
    /\ selectedVersionIndex = NoSelection
    /\ lastDownload = NoDownload
    /\ lastEvent = Event("init", NoSelection)
    /\ prompt = <<>>
    /\ attachedFile = "null"
    /\ isDragging = FALSE
    /\ isGenerating = FALSE
    /\ disabled = FALSE
    /\ generateCalls = 0
    /\ lastGenerate = NoGenerate
    /\ btlPc = "idle"
    /\ parts = <<>>
    /\ apiCalls = 0
    /\ btlResult = NoResult
    /\ settled = NotSettled
    /\ frames = NoFrames
    /\ delay \in Delays
    /\ mounted = TRUE
    /\ stage = 0
    /\ startTimeout = TRUE
    /\ cycleInterval = FALSE
    /\ stageTimeouts = {}
    /\ cycles = 0

NextDrawing ==
    \/ StartTimeoutFires
    \/ IntervalFires
    \/ \E n \in {1, 2} : StageTimeoutFires(n)
    \/ Unmount

SpecDrawing == InitDrawing /\ [][NextDrawing]_vars

-----------------------------------------------------------------------------
(* Claims *)

\* C1: whenever bringToLife returns, the returned sequence has exactly three
\* entries, each with themeName, description and html; any other designs array
\* makes bringToLife fail instead.
C1_ReturnsExactlyThree ==
    btlPc = "returned" =>
        /\ Len(btlResult.value) = 3
        /\ \A i \in 1..Len(btlResult.value) :
              btlResult.value[i].has = {"themeName", "description", "html"}

\* C2, as stated: the step counter is always in [0,3], and from the third tick
\* of a generation on it is 3.
C2_StepWithinThree ==
    /\ loadingStep \in 0..3
    /\ (interval /\ ticks >= 3 => loadingStep = 3)

\* C2, amended: the step counter is always in [0,4]; after k ticks of one
\* generation it is min(k, 4), so it is 4 after four ticks and every further
\* tick of that generation leaves it at 4.
C2_StepWithinFour ==
    /\ loadingStep \in 0..4
    /\ (interval => loadingStep = IF ticks < 4 THEN ticks ELSE 4)

\* C2 witness: a pending generation that has ticked more than four times.
C2_TickedPastFour == isLoading /\ ticks > 4 /\ loadingStep = 4

\* C3: after a reset (the creation becoming null), from AllThemes or from any
\* Focused(i), there are no active themes and no selection.
C3_ResetClearsBoth ==
    lastEvent.op = "reset" =>
        /\ activeVersions = <<>>
        /\ selectedVersionIndex = NoSelection

\* C4: the selection is always AllThemes or an index of an active theme.
C4_SelectionInRange ==
    \/ selectedVersionIndex = NoSelection
    \/ selectedVersionIndex \in 0..(Len(activeVersions) - 1)

\* C5: right after a creation with a non-empty versions array replaced the current
\* one, the selection is AllThemes and the active themes are that creation's
\* versions, in order, whatever the selection was before.
C5_NewVersionsShowAll ==
    lastEvent.op = "creation" /\ creation.hasVersions /\ creation.versions # <<>> =>
        /\ selectedVersionIndex = NoSelection
        /\ activeVersions = creation.versions

\* C5 witness: a creation with several versions arrived while a theme was focused.
C5_ReplacedWhileFocused ==
    /\ lastEvent.op = "creation"
    /\ lastEvent.from # NoSelection
    /\ creation.hasVersions
    /\ Len(creation.versions) > 1

\* C6, as stated: right after a creation with an html field and no (or an empty)
\* versions array arrived, there is exactly one active theme, its markup is that
\* html, and the selection is Focused(0).
C6_LegacyNormalized ==
    /\ lastEvent.op = "creation"
    /\ creation.hasHtml
    /\ (~creation.hasVersions \/ creation.versions = <<>>)
    => /\ Len(activeVersions) = 1
       /\ activeVersions[1].html = creation.html
       /\ selectedVersionIndex = 0

\* C6, amended: the same for a creation whose html is a non-empty string.
C6_LegacyNonEmptyNormalized ==
    /\ lastEvent.op = "creation"
    /\ creation.hasHtml /\ creation.html # <<>>
    /\ (~creation.hasVersions \/ creation.versions = <<>>)
    => /\ Len(activeVersions) = 1
       /\ activeVersions[1].html = creation.html
       /\ selectedVersionIndex = 0

\* C6 witness: a creation with an empty versions array and a non-empty html
\* arrived while the selection was AllThemes, and the preview is now Focused(0).
C6_LegacyAfterGallery ==
    /\ lastEvent.op = "creation"
    /\ lastEvent.from = NoSelection
    /\ creation.hasHtml /\ creation.html # <<>>
    /\ creation.hasVersions /\ creation.versions = <<>>
    /\ selectedVersionIndex = 0

\* C7: the base name of a downloaded .html file contains only lower-case letters,
\* digits and underscores, for every creation name and theme name.
C7_BaseNameNormalized ==
    lastDownload.type = "text/html" =>
        LET base == SubSeq(lastDownload.filename, 1, Len(lastDownload.filename) - 5)
        IN  \A i \in 1..Len(base) :
                base[i] \in Range(LowerLetters) \cup Range(Digits) \cup {"_"}

\* C8: the exported prompt is the trimmed inner text of the marker whenever the
\* markup contains the marker, for every inner text, and the placeholder otherwise.
C8_PromptIsInnerText ==
    lastDownload.type = "text/plain" =>
        LET match == PromptMatch(activeVersions[1].html)
        IN  lastDownload.content =
                IF match.found THEN Trim(match.group) ELSE PromptNotFound

\* C9: onGenerate is never invoked while a generation is pending, so no second
\* generation starts before the first completed.
C9_NoGenerateWhilePending == generateCalls > 0 => ~lastGenerate.pending

\* C9 witness: a generation is pending and the input area holds something to
\* send (a file chosen in the file dialog while generating).
C9_PendingWithInput == isGenerating /\ generateCalls > 0 /\ ~NothingToSend

\* C10: a generation start and a completion both leave the step at 0, and from
\* a completion to the next start the ticker is stopped and the step stays 0.
C10_StepResetTickerStopped ==
    /\ (lastEvent.op \in {"start", "stop"} => loadingStep = 0)
    /\ (~isLoading => ~interval /\ loadingStep = 0)

\* C10 witness: a generation completed after the ticker had advanced the step.
C10_StoppedAfterTicks == lastEvent.op = "stop" /\ ticks >= 2 /\ ~isLoading

\* C11: choosing theme k by its tab, its Preview Flow button or one of its
\* miniatures leads to Focused(k) and choosing Compare leads to AllThemes, from
\* every selection, and both leave the active themes as they were.
C11_SelectMovesDirectly ==
    [][ /\ \A k \in 0..(MaxVersions - 1) :
              (\/ ClickTab(k)
               \/ ClickPreviewFlow(k)
               \/ \E pIdx \in 0..2 : ClickThumbnail(k, pIdx))
              => selectedVersionIndex' = k /\ activeVersions' = activeVersions
        /\ ClickCompare
              => selectedVersionIndex' = NoSelection /\ activeVersions' = activeVersions
      ]_vars

\* C11 witness: the tab of the second theme was clicked.
C11_SecondTabChosen ==
    lastEvent.op = "tab" /\ selectedVersionIndex = 1 /\ Len(activeVersions) > 1

\* C12: in Focused(i) the interactive preview shows the markup of active theme i,
\* and a header export just made carries the markup (or its prompt) and the name
\* of active theme i.
C12_FocusedUsesThemeI ==
    HeaderActionsShown =>
        LET theme == activeVersions[selectedVersionIndex + 1]
        IN  /\ FocusedSrcDoc = theme.html
            /\ lastEvent.op = "downloadHtml" =>
                  /\ lastDownload.content = theme.html
                  /\ lastDownload.filename = HtmlFileName(creation.name, theme.themeName)
            /\ lastEvent.op = "downloadPrompt" =>
                  /\ lastDownload.content = PromptText(theme.html)
                  /\ lastDownload.filename = PromptFileName(theme.themeName)

\* C12 witness: the HTML of the second of two different themes was downloaded
\* from the header.
C12_SecondThemeExported ==
    /\ lastEvent.op = "downloadHtml"
    /\ selectedVersionIndex = 1
    /\ Len(activeVersions) > 1
    /\ activeVersions[1] # activeVersions[2]
    /\ FocusedViewShown

\* C13: whenever the tab strip is shown it has one tab per active theme plus
\* the Compare tab, and exactly one tab is active: Compare in AllThemes, tab i in
\* Focused(i).
C13_ExactlyOneTabActive ==
    TabsShown =>
        /\ Len(TabStrip) = Len(activeVersions) + 1
        /\ Cardinality({n \in 1..Len(TabStrip) : TabActive(TabStrip[n])}) = 1
        /\ selectedVersionIndex = NoSelection => TabActive(TabStrip[1])
        /\ \A i \in 0..(Len(activeVersions) - 1) :
              selectedVersionIndex = i => TabActive(TabStrip[i + 2])

\* C13 witness: the strip is shown in AllThemes after a theme had been focused.
C13_StripInCompare ==
    TabsShown /\ lastEvent.op = "compare" /\ selectedVersionIndex = NoSelection

\* C16: an export leaves the active themes, the selection and the loading step
\* as they were, and a header export repeated right after itself hands over the
\* same file name and content.
C16_ExportChangesNothing ==
    [][ lastEvent'.op \in {"downloadHtml", "downloadPrompt"} =>
          /\ UNCHANGED <<activeVersions, selectedVersionIndex, loadingStep, creation>>
          /\ (lastEvent.op = lastEvent'.op /\ selectedVersionIndex # NoSelection
                => lastDownload' = lastDownload)
      ]_vars

\* C16 witness: a prompt was exported from the header while a generation was
\* pending and the loading step had advanced.
C16_ExportWhileLoading ==
    lastEvent.op = "downloadPrompt" /\ isLoading /\ loadingStep > 0
        /\ selectedVersionIndex # NoSelection

\* C18: right after a non-null creation replaced the shown one, the active themes
\* are those of the new creation only: its versions, else the one theme around
\* its html, else none.
C18_ThemesFromNewCreationOnly ==
    lastEvent.op = "creation" =>
        activeVersions =
            IF creation.hasVersions /\ creation.versions # <<>> THEN creation.versions
            ELSE IF creation.hasHtml /\ creation.html # <<>>
                 THEN <<LegacyTheme(creation.html)>>
            ELSE <<>>

\* C14: no onGenerate call carries both an empty or white-space-only prompt and
\* no file, and a submit attempt (Enter, button) with nothing to send leaves the
\* prompt and the attachment as they were and calls nothing.
C14_NeverGenerateEmpty ==
    /\ [](generateCalls > 0 =>
            ~(Trim(lastGenerate.prompt) = <<>> /\ lastGenerate.file = "null"))
    /\ [][ (PressEnter \/ ClickSubmit) /\ Trim(prompt) = <<>> /\ attachedFile = "null"
             => /\ prompt' = prompt
                /\ attachedFile' = attachedFile
                /\ generateCalls' = generateCalls ]_vars

\* C14 witness: a generation was started with a white-space-only prompt and an
\* attached file, the least a submit may carry.
C14_FileOnlySubmitted ==
    generateCalls > 0 /\ lastGenerate.prompt = <<" ">> /\ lastGenerate.file # "null"

\* C15: when generateContent rejects, bringToLife rejects with that very error;
\* when the response text is not JSON, it rejects with the parser's error; in
\* both cases generateContent was called once and nothing is returned.
C15_FailureSurfacesUnmodified ==
    /\ settled.outcome = "reject" =>
          btlPc = "thrown" /\ btlResult = Thrown(settled.error) /\ apiCalls = 1
    /\ settled.outcome = "resolve" /\ settled.text = "malformed" =>
          btlPc = "thrown" /\ btlResult = Thrown("SyntaxError") /\ apiCalls = 1
    /\ btlPc \in {"returned", "thrown"} => apiCalls = 1

\* C15 witness: the call failed with an authentication error and bringToLife
\* has ended.
C15_AuthErrorSurfaced ==
    settled.outcome = "reject" /\ settled.error = "AuthError" /\ btlPc = "thrown"

\* C17: in AllThemes while not loading there is one miniature per pair (active
\* theme, preview page), showing that theme's markup, and every miniature whose
\* load event has fired has had its fragment set to the route of its page.
C17_MiniaturesRouted ==
    GalleryShown =>
        /\ Cardinality(GalleryPairs) = 3 * Len(activeVersions)
        /\ DOMAIN frames \subseteq GalleryPairs
        /\ \A f \in GalleryPairs :
              /\ Miniature(f[1], f[2]).srcDoc = activeVersions[f[1] + 1].html
              /\ Miniature(f[1], f[2]).title[2] = <<"Home", "Features", "Contact">>[f[2] + 1]
        /\ \A f \in DOMAIN frames :
              /\ frames[f].frame = Miniature(f[1], f[2])
              /\ frames[f].result.threw = "none"
              /\ frames[f].result.hash =
                    <<"#page-home", "#page-features", "#page-contact">>[f[2] + 1]

\* C19: once the component is unmounted, no timer callback changes its stage.
C19_StageFrozenAfterUnmount == [][~mounted => stage' = stage]_vars

=============================================================================
